---- MODULE Spec2Model ----
(***************************************************************************)
(* PMAD AI Document Assistant: the FileUpload component's intake pipeline  *)
(* (processFiles and the FileReader callbacks it installs) and the App     *)
(* component's conversation (handleSubmit, clearChat, downloadHistory).    *)
(*                                                                         *)
(* JavaScript runs the handlers on one thread, so every action below is    *)
(* one macrotask.  The synchronous part of processFiles and the promise    *)
(* continuation after the last read are cut into steps so that every value *)
(* written to uploadProgress is a state; while pc is "map" or "merge" no   *)
(* other handler can run.                                                  *)
(*                                                                         *)
(* Text is a sequence of one-character strings, so that toLowerCase,       *)
(* endsWith and trim are computed.  Timestamps (Date.now) are left out.    *)
(*                                                                         *)
(* Spec is the FileUpload component under every list of files; ChatSpec is *)
(* the App component's conversation over a library of no or one document.  *)
(* The two meet only in isLoading (which disables intake) and in           *)
(* files.length (which handleSubmit tests).  LibrarySpec is the library    *)
(* panel of FileUpload (search box, remove buttons) over any collection.   *)
(***************************************************************************)
EXTENDS Integers, Sequences, FiniteSets, TLC

VARIABLES
    files,           \* App.tsx:9     the document collection
    history,         \* App.tsx:10    the conversation
    input,           \* App.tsx:11    the question box
    isLoading,       \* App.tsx:12
    error,           \* App.tsx:14    the banner text, Null when none
    errorTimers,     \* App.tsx:42    pending setTimeout(() => setError(null))
    callHistory,     \* App.tsx:60    `history` as captured by the pending handleSubmit
    question,        \* App.tsx:46    the question of the pending handleSubmit
    downloaded,      \* App.tsx:98    the transcript last handed to the browser, Null when none
    isProcessing,    \* FileUpload.tsx:14
    uploadProgress,  \* FileUpload.tsx:15
    searchQuery,     \* FileUpload.tsx:12  the text of the search box
    pc,              \* position of the processFiles run
    validFiles,      \* FileUpload.tsx:19
    closureFiles,    \* FileUpload.tsx:97  `files` as captured by the processFiles closure
    totalBytes,      \* FileUpload.tsx:31
    loadedBytes,     \* FileUpload.tsx:32
    duplicates,      \* FileUpload.tsx:33
    mapIdx,          \* FileUpload.tsx:36  next element validFiles.map visits
    readerState,     \* per file: "none", "skipped", "reading", "loaded", "failed"
    lastLoaded,      \* FileUpload.tsx:50  per file
    notice           \* the last alert() of the processFiles run

chatVars == <<history, input, isLoading, error, errorTimers, callHistory, question, downloaded>>
batchVars == <<validFiles, closureFiles, totalBytes, loadedBytes, duplicates, mapIdx,
               readerState, lastLoaded>>
intakeVars == <<isProcessing, uploadProgress, searchQuery, pc, batchVars, notice>>
vars == <<files, chatVars, intakeVars>>

-----------------------------------------------------------------------------
(* Bounds *)
MaxBatch == 2        \* longest list of files handed to processFiles
MaxFiles == 3        \* longest document collection
MaxTurns == 4        \* longest conversation
MaxTimers == 1       \* most banner timers pending at once

-----------------------------------------------------------------------------
(* Text *)
Upper == <<"A","B","C","D","E","F","G","H","I","J","K","L","M",
           "N","O","P","Q","R","S","T","U","V","W","X","Y","Z">>
Lower == <<"a","b","c","d","e","f","g","h","i","j","k","l","m",
           "n","o","p","q","r","s","t","u","v","w","x","y","z">>

ToLowerChar(c) ==
    IF \E k \in 1..26 : Upper[k] = c
    THEN Lower[CHOOSE k \in 1..26 : Upper[k] = c]
    ELSE c

ToLowerCase(s) == [k \in 1..Len(s) |-> ToLowerChar(s[k])]

EndsWith(s, suffix) ==
    /\ Len(s) >= Len(suffix)
    /\ SubSeq(s, Len(s) - Len(suffix) + 1, Len(s)) = suffix

PdfType == <<"application/pdf">>
PdfSuffix == <<".", "p", "d", "f">>

\* every file is taken
IsPdfAny(file) == TRUE

\* lines 19-21
IsPdf(file) ==
    file.type = PdfType \/ EndsWith(ToLowerCase(file.name), PdfSuffix)

-----------------------------------------------------------------------------
(* Arithmetic of the progress bar.  NaN stands for the IEEE not-a-number   *)
(* that 0 / 0 yields; it compares below every percentage.                  *)
NaN == -1

\* Math.round((loadedBytes / totalBytes) * 100): round half up, in exact
\* arithmetic (the double agrees at 0 and at loaded = total, and is monotonic)
RoundPercent(loaded, total) ==
    IF total = 0 THEN NaN ELSE (200 * loaded + total) \div (2 * total)

\* Math.min propagates NaN
MathMin(a, b) ==
    IF a = NaN \/ b = NaN THEN NaN ELSE IF a < b THEN a ELSE b

DuplicatePercent(loaded, total) == RoundPercent(loaded, total)

ProgressPercent(loaded, total) == MathMin(99, RoundPercent(loaded, total))

\* onload clamped like onprogress
LoadPercentClamped99(loaded, total) == MathMin(99, RoundPercent(loaded, total))

LoadPercent(loaded, total) == MathMin(100, RoundPercent(loaded, total))

RECURSIVE SumSizes(_)
SumSizes(fs) == IF fs = <<>> THEN 0 ELSE Head(fs).size + SumSizes(Tail(fs))

-----------------------------------------------------------------------------
(* Files the user can hand over *)
FA == [name |-> <<"a", ".", "p", "d", "f">>, type |-> PdfType, size |-> 1, data |-> "A"]
FB == [name |-> <<"b", ".", "p", "d", "f">>, type |-> PdfType, size |-> 200, data |-> "B"]
FZ == [name |-> <<"Z", ".", "P", "D", "F">>, type |-> <<>>, size |-> 0, data |-> ""]
FT == [name |-> <<"n", ".", "t", "x", "t">>, type |-> <<"text/plain">>, size |-> 1, data |-> "T"]

FileUniverse == {FA, FB, FZ, FT}

RECURSIVE SeqsUpTo(_, _)
SeqsUpTo(S, n) ==
    IF n = 0 THEN {<<>>}
    ELSE LET shorter == SeqsUpTo(S, n - 1)
         IN  shorter \cup {Append(s, x) : s \in shorter, x \in S}

BatchInputs == SeqsUpTo(FileUniverse, MaxBatch)

\* the values event.loaded takes for a file of the given size
ProgressPoints(size) == {0, size \div 2, size}

Null == <<>>

-----------------------------------------------------------------------------
\* App.tsx:10-14, and nothing downloaded
InitApp ==
    /\ history = <<>>
    /\ input = <<>>
    /\ isLoading = FALSE
    /\ error = Null
    /\ errorTimers = 0
    /\ callHistory = <<>>
    /\ question = <<>>
    /\ downloaded = <<>>

\* FileUpload.tsx:12-15, and no processFiles run
InitUpload ==
    /\ isProcessing = FALSE
    /\ uploadProgress = 0
    /\ searchQuery = <<>>
    /\ pc = "idle"
    /\ validFiles = <<>>
    /\ closureFiles = <<>>
    /\ totalBytes = 0
    /\ loadedBytes = 0
    /\ duplicates = <<>>
    /\ mapIdx = 0
    /\ readerState = <<>>
    /\ lastLoaded = <<>>
    /\ notice = <<"none">>

Init ==
    /\ files = <<>>
    /\ InitApp
    /\ InitUpload

-----------------------------------------------------------------------------
(* FileUpload.tsx: processFiles *)

IsDuplicate(file, existing) ==
    \E k \in 1..Len(existing) :
        existing[k].name = file.name /\ existing[k].size = file.size

\* reader.result is "data:<type>;base64,<payload>"; split(',') gives two parts
ReadAsDataURL(file) == <<<<"data:", file.type, ";base64">>, file.data>>

FileDataOf(file) ==
    [name |-> file.name, base64 |-> ReadAsDataURL(file)[2], size |-> file.size]

\* lines 18-32: the filter, the early return, and the set-up of the run
ProcessFiles(incomingFiles) ==
    LET valid == SelectSeq(incomingFiles, IsPdf) IN
    IF Len(valid) = 0
    THEN /\ notice' = IF Len(incomingFiles) > 0 THEN <<"unsupported">> ELSE notice
         /\ UNCHANGED <<files, searchQuery, chatVars, isProcessing, uploadProgress, pc, batchVars>>
    ELSE /\ Len(files) + Len(valid) <= MaxFiles
         /\ isProcessing' = TRUE
         /\ uploadProgress' = 0
         /\ validFiles' = valid
         /\ closureFiles' = files
         /\ totalBytes' = SumSizes(valid)
         /\ loadedBytes' = 0
         /\ duplicates' = <<>>
         /\ mapIdx' = 1
         /\ readerState' = [k \in 1..Len(valid) |-> "none"]
         /\ lastLoaded' = [k \in 1..Len(valid) |-> 0]
         /\ pc' = "map"
         /\ notice' = <<"none">>
         /\ UNCHANGED <<files, searchQuery, chatVars>>

\* the continuation runs as soon as one promise has resolved
AfterSettleAny(states) ==
    IF \E k \in 1..Len(states) : states[k] \in {"skipped", "loaded"}
    THEN "merge" ELSE "await"

\* what follows the synchronous map: `await Promise.all` continues in the same
\* macrotask when nothing is being read, and otherwise waits for the readers
AfterSettle(states) ==
    IF \A k \in 1..Len(states) : states[k] \in {"skipped", "loaded"}
    THEN "merge" ELSE "await"

\* lines 36-77: one element of validFiles.map
MapStep ==
    /\ pc = "map"
    /\ LET file == validFiles[mapIdx]
           last == mapIdx = Len(validFiles)
       IN  IF IsDuplicate(file, closureFiles)
           THEN /\ duplicates' = Append(duplicates, file.name)
                /\ loadedBytes' = loadedBytes + file.size
                /\ uploadProgress' = DuplicatePercent(loadedBytes + file.size, totalBytes)
                /\ readerState' = [readerState EXCEPT ![mapIdx] = "skipped"]
                /\ pc' = IF last
                         THEN AfterSettle([readerState EXCEPT ![mapIdx] = "skipped"])
                         ELSE "map"
           ELSE /\ readerState' = [readerState EXCEPT ![mapIdx] = "reading"]
                /\ pc' = IF last THEN "await" ELSE "map"
                /\ UNCHANGED <<duplicates, loadedBytes, uploadProgress>>
    /\ mapIdx' = mapIdx + 1
    /\ UNCHANGED <<files, searchQuery, chatVars, isProcessing, validFiles, closureFiles, totalBytes,
                   lastLoaded, notice>>

\* the reported total is credited whole at every event
DeltaAbsolute(loaded, last) == loaded

\* line 54: the bytes read since the previous progress event of this reader
Delta(loaded, last) == loaded - last

\* lines 52-59: reader.onprogress
OnProgress(i, lengthComputable, loaded) ==
    /\ pc = "await"
    /\ i \in 1..Len(validFiles)
    /\ readerState[i] = "reading"
    /\ loaded \in ProgressPoints(validFiles[i].size)
    /\ loaded >= lastLoaded[i]
    /\ IF lengthComputable
       THEN LET delta == Delta(loaded, lastLoaded[i]) IN
            /\ lastLoaded' = [lastLoaded EXCEPT ![i] = loaded]
            /\ loadedBytes' = loadedBytes + delta
            /\ uploadProgress' = ProgressPercent(loadedBytes + delta, totalBytes)
       ELSE UNCHANGED <<lastLoaded, loadedBytes, uploadProgress>>
    /\ UNCHANGED <<files, searchQuery, chatVars, isProcessing, pc, validFiles, closureFiles, totalBytes,
                   duplicates, mapIdx, readerState, notice>>

\* no remainder is credited at completion
RemainingNone(size, last) == 0

\* line 62
Remaining(size, last) == size - last

\* lines 61-73: reader.onload
OnLoad(i) ==
    /\ pc = "await"
    /\ i \in 1..Len(validFiles)
    /\ readerState[i] = "reading"
    /\ LET remaining == Remaining(validFiles[i].size, lastLoaded[i])
           credited == IF remaining > 0 THEN loadedBytes + remaining ELSE loadedBytes
           settled == [readerState EXCEPT ![i] = "loaded"]
       IN  /\ loadedBytes' = credited
           /\ uploadProgress' = LoadPercent(credited, totalBytes)
           /\ readerState' = settled
           /\ pc' = AfterSettle(settled)
    /\ UNCHANGED <<files, searchQuery, chatVars, isProcessing, validFiles, closureFiles, totalBytes,
                   duplicates, mapIdx, lastLoaded, notice>>

\* lines 48-76: the read fails; no onerror handler is installed, so the promise
\* of this file never settles
ReadError(i) ==
    /\ pc = "await"
    /\ i \in 1..Len(validFiles)
    /\ readerState[i] = "reading"
    /\ readerState' = [readerState EXCEPT ![i] = "failed"]
    /\ UNCHANGED <<files, searchQuery, chatVars, isProcessing, uploadProgress, pc, validFiles,
                   closureFiles, totalBytes, loadedBytes, duplicates, mapIdx, lastLoaded,
                   notice>>

\* line 80: the non-null results, in the order of validFiles
NewFiles(fs, states) ==
    LET idx == SelectSeq([k \in 1..Len(fs) |-> k], LAMBDA k : states[k] = "loaded")
    IN  [k \in 1..Len(idx) |-> FileDataOf(fs[idx[k]])]

\* the new documents put in front of the collection
MergeResultPrepend(existing, newFiles) == newFiles \o existing

\* line 87
MergeResult(existing, newFiles) == existing \o newFiles

\* lines 79-96: the continuation of `await Promise.all`, up to arming the timer
Merge ==
    /\ pc = "merge"
    /\ LET newFiles == NewFiles(validFiles, readerState) IN
       /\ notice' = IF Len(duplicates) > 0 THEN <<"skipped", Len(duplicates)>> ELSE notice
       /\ files' = IF Len(newFiles) > 0 THEN MergeResult(closureFiles, newFiles) ELSE files
    /\ pc' = "linger"
    /\ UNCHANGED <<searchQuery, chatVars, isProcessing, uploadProgress, batchVars>>

\* lines 92-95: the 500 ms timer; the run's locals go out of scope
IdleReset ==
    /\ pc = "linger"
    /\ isProcessing' = FALSE
    /\ uploadProgress' = 0
    /\ pc' = "idle"
    /\ validFiles' = <<>>
    /\ closureFiles' = <<>>
    /\ totalBytes' = 0
    /\ loadedBytes' = 0
    /\ duplicates' = <<>>
    /\ mapIdx' = 0
    /\ readerState' = <<>>
    /\ lastLoaded' = <<>>
    /\ notice' = <<"none">>
    /\ UNCHANGED <<files, searchQuery, chatVars>>

\* no handler runs between the steps of one macrotask
Interruptible == pc \notin {"map", "merge"}

\* intake is never closed
IntakeDisabledNever == FALSE

\* lines 119, 187 and 235: the test of handleDrop and the `disabled` attribute
\* of the file input and of the button that opens the folder input
IntakeDisabled == isLoading \/ isProcessing

\* lines 99-104: a disabled picker delivers no change event
HandleFileChange(filesArray) ==
    /\ Interruptible
    /\ ~IntakeDisabled
    /\ ProcessFiles(filesArray)

\* lines 116-124
HandleDrop(filesArray) ==
    /\ Interruptible
    /\ IF IntakeDisabled
       THEN UNCHANGED vars
       ELSE /\ Len(filesArray) > 0
            /\ ProcessFiles(filesArray)

\* lines 126-130
RemoveFile(originalIndex) ==
    /\ Interruptible
    /\ originalIndex \in 1..Len(files)
    /\ files' = SubSeq(files, 1, originalIndex - 1) \o
                SubSeq(files, originalIndex + 1, Len(files))
    /\ UNCHANGED <<chatVars, intakeVars>>

\* lines 132-136, behind the button of lines 154-161
ClearAllFiles ==
    /\ Interruptible
    /\ Len(files) > 1
    /\ files' = <<>>
    /\ UNCHANGED <<chatVars, intakeVars>>

\* String.prototype.includes
Includes(s, sub) ==
    \E k \in 0..(Len(s) - Len(sub)) : SubSeq(s, k + 1, k + Len(sub)) = sub

\* each entry numbered by its place in the filtered list
FilteredFilesRenumbered(fs, query) ==
    LET kept == SelectSeq(fs, LAMBDA file : Includes(ToLowerCase(file.name), ToLowerCase(query)))
    IN  [j \in 1..Len(kept) |->
            [name |-> kept[j].name, base64 |-> kept[j].base64, size |-> kept[j].size,
             originalIndex |-> j]]

\* lines 138-144: the position is tagged before the filter; positions count
\* from 1 here, as RemoveFile takes them
FilteredFiles(fs, query) ==
    LET tagged == [k \in 1..Len(fs) |->
                      [name |-> fs[k].name, base64 |-> fs[k].base64, size |-> fs[k].size,
                       originalIndex |-> k]]
    IN  SelectSeq(tagged, LAMBDA file : Includes(ToLowerCase(file.name), ToLowerCase(query)))

\* lines 256-270: the entries on screen, each with its remove button
ShownIndices ==
    LET view == FilteredFiles(files, searchQuery)
    IN  {view[j].originalIndex : j \in 1..Len(view)}

\* texts typed into the search box
Queries == {<<>>, <<"A">>, <<"z", ".">>, <<"x">>}

\* line 179
SetSearchQuery(text) ==
    /\ Interruptible
    /\ searchQuery' = text
    /\ UNCHANGED <<files, chatVars, isProcessing, uploadProgress, pc, batchVars, notice>>

IntakeSteps ==
    \/ MapStep
    \/ \E i \in 1..Len(validFiles), c \in BOOLEAN :
           \E l \in ProgressPoints(validFiles[i].size) : OnProgress(i, c, l)
    \/ \E i \in 1..Len(validFiles) : OnLoad(i)
    \/ \E i \in 1..Len(validFiles) : ReadError(i)
    \/ Merge
    \/ IdleReset
    \/ \E k \in ShownIndices : RemoveFile(k)
    \/ ClearAllFiles

-----------------------------------------------------------------------------
(* App.tsx: the conversation *)

Whitespace == {" ", "\t", "\n"}

RECURSIVE TrimStart(_)
TrimStart(s) ==
    IF s # <<>> /\ Head(s) \in Whitespace THEN TrimStart(Tail(s)) ELSE s

RECURSIVE TrimEnd(_)
TrimEnd(s) ==
    IF s # <<>> /\ s[Len(s)] \in Whitespace THEN TrimEnd(SubSeq(s, 1, Len(s) - 1)) ELSE s

\* no trimming at all
TrimNothing(s) == s

Trim(s) == TrimEnd(TrimStart(s))

\* what the user can type
InputUniverse == {<<>>, <<" ">>, <<" ", "q", " ">>}

\* response.text of the remote service: empty stands for no text
RemoteTexts == {<<>>, <<"A">>}

\* unnamed/part_000:51
FallbackText == <<"I'm sorry, I couldn't generate a response.">>
\* unnamed/part_000:54
FailedMessage == <<"Failed to get an answer from the AI. Please check your files and try again.">>
\* App.tsx:71
SomethingWrong == <<"Something went wrong.">>
\* App.tsx:41
NoDocumentsMessage == <<"Please upload documents or PDFs first.">>

\* err.message of a rejected call: the message thrown at part_000:54, or none
ErrorMessages == {FailedMessage, <<>>}

\* line 234, with the `disabled` attribute of line 236
SetInput(text) ==
    /\ ~isLoading
    /\ input' = text
    /\ UNCHANGED <<files, history, isLoading, error, errorTimers, callHistory, question,
                   downloaded, intakeVars>>

\* every submission is let through
SubmitRejectedNever(text, loading) == FALSE

\* line 39
SubmitRejected(text, loading) == Trim(text) = <<>> \/ loading

\* the library is never taken for empty
NoDocumentsNever(library) == FALSE

\* line 40
NoDocuments(library) == Len(library) = 0

\* lines 37-56: handleSubmit up to the remote call
HandleSubmit ==
    IF SubmitRejected(input, isLoading)
    THEN UNCHANGED vars
    ELSE IF NoDocuments(files)
    THEN /\ errorTimers < MaxTimers
         /\ error' = NoDocumentsMessage
         /\ errorTimers' = errorTimers + 1
         /\ UNCHANGED <<files, history, input, isLoading, callHistory, question, downloaded,
                        intakeVars>>
    ELSE /\ Len(history) + 2 <= MaxTurns
         /\ question' = Trim(input)
         /\ history' = Append(history, [role |-> "user", content |-> Trim(input)])
         /\ input' = <<>>
         /\ isLoading' = TRUE
         /\ error' = Null
         /\ callHistory' = history
         /\ UNCHANGED <<files, errorTimers, downloaded, intakeVars>>

\* part_000:51
AnswerOf(text) == IF text = <<>> THEN FallbackText ELSE text

\* lines 59-69 and 72-74: the remote call and the 5 s timer have both resolved
RemoteResolve(text) ==
    /\ isLoading
    /\ history' = Append(history, [role |-> "model", content |-> AnswerOf(text)])
    /\ isLoading' = FALSE
    /\ UNCHANGED <<files, input, error, errorTimers, callHistory, question, downloaded,
                   intakeVars>>

\* line 71
\* the message of the error as it is, with no fallback text
BannerOfRaw(message) == message

BannerOf(message) == IF message = <<>> THEN SomethingWrong ELSE message

\* lines 70-74: the remote call has rejected
RemoteReject(message) ==
    /\ isLoading
    /\ error' = BannerOf(message)
    /\ isLoading' = FALSE
    /\ UNCHANGED <<files, history, input, errorTimers, callHistory, question, downloaded,
                   intakeVars>>

\* line 42: the 3 s timer of the no-documents banner
ErrorTimerFires ==
    /\ errorTimers > 0
    /\ error' = Null
    /\ errorTimers' = errorTimers - 1
    /\ UNCHANGED <<files, history, input, isLoading, callHistory, question, downloaded,
                   intakeVars>>

\* lines 77-81, behind the button of lines 155-161
ClearChat ==
    /\ Len(history) > 0
    /\ history' = <<>>
    /\ UNCHANGED <<files, input, isLoading, error, errorTimers, callHistory, question,
                   downloaded, intakeVars>>

\* the two labels exchanged
RoleLabelSwapped(role) == IF role = "user" THEN "ASSISTANT" ELSE "USER"

\* line 94
RoleLabel(role) == IF role = "user" THEN "USER" ELSE "ASSISTANT"

\* line 95: the three lines of one turn
TurnBlock(msg) == << <<"[", "time", "] ", RoleLabel(msg.role), ":">>, msg.content, <<>> >>

RECURSIVE TurnBlocks(_)
\* lines 92-96
TurnBlocks(turns) ==
    IF turns = <<>> THEN <<>> ELSE TurnBlock(Head(turns)) \o TurnBlocks(Tail(turns))

\* lines 88-90
TranscriptHeader ==
    << <<"PMAD AI Assistant - Chat History">>,
       <<"Date: ", "now">>,
       <<"--------------------------------------------------">>,
       <<>> >>

\* lines 83-107: a transcript is the sequence of its lines
DownloadHistory ==
    IF Len(history) = 0
    THEN UNCHANGED vars
    ELSE /\ downloaded' = TranscriptHeader \o TurnBlocks(history)
         /\ UNCHANGED <<files, history, input, isLoading, error, errorTimers, callHistory,
                        question, intakeVars>>

\* the App alone: a library of no or one document, and the conversation
ChatInit ==
    /\ files \in {<<>>, <<FileDataOf(FA)>>}
    /\ InitApp
    /\ InitUpload

ChatNext ==
    \/ \E text \in InputUniverse : SetInput(text)
    \/ HandleSubmit
    \/ \E text \in RemoteTexts : RemoteResolve(text)
    \/ \E message \in ErrorMessages : RemoteReject(message)
    \/ ErrorTimerFires
    \/ ClearChat
    \/ DownloadHistory
    \/ \E k \in ShownIndices : RemoveFile(k)

ChatSpec == ChatInit /\ [][ChatNext]_vars

\* the timers fire, and the remote call settles
FairChatSpec ==
    /\ ChatSpec
    /\ WF_vars(ErrorTimerFires)
    /\ WF_vars(\E text \in RemoteTexts : RemoteResolve(text))

-----------------------------------------------------------------------------
\* the documents a library can hold
Documents == {FileDataOf(file) : file \in {f \in FileUniverse : IsPdf(f)}}

\* the library panel alone: any collection, searched and pruned
LibraryInit ==
    /\ files \in SeqsUpTo(Documents, MaxFiles)
    /\ InitApp
    /\ InitUpload

LibraryNext ==
    \/ \E text \in Queries : SetSearchQuery(text)
    \/ \E k \in ShownIndices : RemoveFile(k)
    \/ ClearAllFiles

LibrarySpec == LibraryInit /\ [][LibraryNext]_vars

-----------------------------------------------------------------------------
Next ==
    \/ \E fs \in BatchInputs : HandleFileChange(fs)
    \/ \E fs \in BatchInputs : HandleDrop(fs)
    \/ IntakeSteps

Spec == Init /\ [][Next]_vars

\* the event loop runs every callback that is ready: the map and the promise
\* continuation finish, a read that does not fail loads, the 500 ms timer fires
FairSpec ==
    /\ Spec
    /\ WF_vars(MapStep)
    /\ \A i \in 1..MaxBatch : WF_vars(OnLoad(i))
    /\ WF_vars(Merge)
    /\ WF_vars(IdleReset)

-----------------------------------------------------------------------------
(* Claims *)

Readers == DOMAIN readerState

\* C1: while a dispatched read of the batch is still in flight, uploadProgress
\* is at most 99
C1_At99WhileReading ==
    (\E i \in Readers : readerState[i] = "reading") => uploadProgress <= 99

\* C2: from the initial setUploadProgress(0) to the idle reset, every
\* percentage written to uploadProgress is at least the percentage before it
\* (a NaN is no percentage and is not compared)
C2_ProgressMonotonic ==
    [][(pc # "idle" /\ pc' # "idle" /\ uploadProgress # NaN /\ uploadProgress' # NaN)
          => uploadProgress' >= uploadProgress]_vars

\* C3: the document collection never holds two entries with the same name and
\* the same size
C3_NoDuplicateEntries ==
    \A j, k \in 1..Len(files) :
        (files[j].name = files[k].name /\ files[j].size = files[k].size) => j = k

\* C4: when the remote call rejects, the conversation handleSubmit leaves is
\* the one it found when the question was submitted
C4_FailureRestoresHistory ==
    [][(\E message \in ErrorMessages : RemoteReject(message)) => history' = callHistory]_vars

\* C5: a batch in which one read has failed and the reads of all other files
\* have succeeded eventually performs its merge
C5_FailedReadStillMerges ==
    (/\ Cardinality({i \in Readers : readerState[i] = "failed"}) = 1
     /\ \E i \in Readers : readerState[i] = "loaded"
     /\ \A i \in Readers : readerState[i] \in {"failed", "loaded", "skipped"})
        ~> (pc = "linger")

\* C6: in a batch whose total size is 0 every value of uploadProgress is a
\* number in 0..100, and the finished batch shows 100
C6_ZeroTotalReports100 ==
    (pc # "idle" /\ totalBytes = 0) =>
        /\ uploadProgress \in 0..100
        /\ pc \in {"merge", "linger"} => uploadProgress = 100

\* C7: a batch without duplicates and failures and with a positive total size
\* has 100 in uploadProgress once its last read has completed, until the idle reset
C7_FinalProgressIs100 ==
    (pc \in {"merge", "linger"} /\ duplicates = <<>> /\ totalBytes > 0) =>
        uploadProgress = 100

C7_Witness ==
    /\ pc = "linger"
    /\ duplicates = <<>>
    /\ Len(validFiles) = 2
    /\ totalBytes > 0
    /\ \E i \in Readers : lastLoaded[i] < validFiles[i].size
    /\ uploadProgress = 100

\* C8: the merge of a batch without duplicates and failures sets the collection
\* to the pre-batch collection followed by the documents of the submitted
\* files, in the order of submission
C8_MergeAppendsInOrder ==
    [][(pc = "merge" /\ pc' = "linger" /\ duplicates = <<>>) =>
        LET n == Len(closureFiles) IN
        /\ Len(files') = n + Len(validFiles)
        /\ \A k \in 1..n : files'[k] = closureFiles[k]
        /\ \A k \in 1..Len(validFiles) :
              /\ files'[n + k].name = validFiles[k].name
              /\ files'[n + k].size = validFiles[k].size
              /\ files'[n + k].base64 = validFiles[k].data]_vars

C8_Witness ==
    /\ pc = "linger"
    /\ duplicates = <<>>
    /\ Len(closureFiles) = 1
    /\ Len(validFiles) = 2
    /\ validFiles[1].name # validFiles[2].name
    /\ Len(files) = 3
    /\ files[1] = closureFiles[1]
    /\ files[2].name = validFiles[1].name
    /\ files[3].name = validFiles[2].name

\* C9: a file of the batch that equals an entry of the collection in name and
\* size is not read, is not among the documents the merge appends, has its
\* size in loadedBytes, and the finished batch shows 100
C9_DuplicateSkippedCreditedTo100 ==
    LET visited == {i \in Readers : i < mapIdx}
        dups == {i \in visited : IsDuplicate(validFiles[i], closureFiles)}
        dupSizes == [k \in 1..Len(validFiles) |->
                        IF k \in dups THEN validFiles[k].size ELSE 0]
        sumTo[k \in 0..Len(validFiles)] ==
            IF k = 0 THEN 0 ELSE sumTo[k - 1] + dupSizes[k]
    IN  /\ \A i \in dups : readerState[i] = "skipped"
        /\ loadedBytes >= sumTo[Len(validFiles)]
        /\ pc = "merge" =>
              Len(NewFiles(validFiles, readerState)) = Len(validFiles) - Cardinality(dups)
        /\ (pc \in {"merge", "linger"} /\ dups # {}) => uploadProgress = 100

C10_EmptyExport ==
    DownloadHistory /\ downloaded' = TranscriptHeader

\* C10 as stated: exporting the empty conversation yields the header line, the
\* timestamp line and the separator, and no turn lines
C10_EmptyExportIsHeaderOnly ==
    history = <<>> => ENABLED C10_EmptyExport

\* C10 as amended: every transcript downloadHistory produces is of a non-empty
\* conversation (the empty one yields no transcript), and is the header line,
\* the timestamp line, the separator and a blank line, then per turn, in
\* append order, a label line naming USER for role user and ASSISTANT for
\* role model, the content, and a blank line
C10_ExportOfNonEmptyOnly ==
    [][downloaded' # downloaded =>
        LET t == downloaded' IN
        /\ history # <<>>
        /\ Len(t) = 4 + 3 * Len(history)
        /\ t[1] = <<"PMAD AI Assistant - Chat History">>
        /\ t[2][1] = "Date: "
        /\ t[3] = <<"--------------------------------------------------">>
        /\ t[4] = <<>>
        /\ \A k \in 1..Len(history) :
              /\ t[3 * k + 2][4] = (IF history[k].role = "user" THEN "USER" ELSE "ASSISTANT")
              /\ t[3 * k + 3] = history[k].content
              /\ t[3 * k + 4] = <<>>]_vars

C10_Witness ==
    /\ Len(downloaded) = 10
    /\ downloaded[5][4] = "USER"
    /\ downloaded[8][4] = "ASSISTANT"
    /\ Len(history) = 2

IsBlank(text) == \A k \in 1..Len(text) : text[k] \in Whitespace

\* C11: a submission of a non-blank question while the collection is empty
\* starts no remote call, sets the no-documents banner, and leaves the
\* conversation and the loading flag as they were
C11_NoDocumentsNoCall ==
    [][(HandleSubmit /\ ~IsBlank(input) /\ Len(files) = 0) =>
        /\ error' = <<"Please upload documents or PDFs first.">>
        /\ history' = history
        /\ isLoading' = isLoading
        /\ callHistory' = callHistory
        /\ question' = question]_vars

C11_Witness ==
    /\ Len(files) = 0
    /\ ~IsBlank(input)
    /\ error = <<"Please upload documents or PDFs first.">>
    /\ errorTimers = 1
    /\ ~isLoading
    /\ Len(history) = 2

\* C12: when the remote call of a submitted question returns a text, the
\* conversation is the one found at submission followed by the user turn of
\* the trimmed question and the model turn of exactly that text
C12_TwoTurnsGained ==
    [][\A text \in RemoteTexts :
          RemoteResolve(text) =>
              history' = callHistory \o
                         << [role |-> "user", content |-> question],
                            [role |-> "model", content |-> AnswerOf(text)] >>]_vars

\* C13: the banner a failed remote call sets is eventually cleared
C13_FailureBannerClears ==
    (~isLoading /\ error \in {BannerOf(message) : message \in ErrorMessages})
        ~> (error = Null)

\* C14: while a batch is processing (from its start to its idle reset) no
\* drop and no picker change starts a processFiles run
C14_OneBatchInFlight ==
    [][isProcessing => ~(pc # "map" /\ pc' = "map")]_vars

C14_Witness ==
    /\ isProcessing
    /\ pc = "await"
    /\ \E i \in Readers : readerState[i] = "reading"
    /\ ENABLED (\E fs \in BatchInputs : HandleDrop(fs))
    /\ ~ENABLED (\E fs \in BatchInputs : HandleFileChange(fs))

\* C15: a batch that has set isProcessing eventually returns to idle, with
\* isProcessing false and uploadProgress 0
C15_BatchReturnsToIdle ==
    isProcessing ~> (~isProcessing /\ uploadProgress = 0)

\* C16: while a question is pending no step starts another remote call or
\* appends a turn: a submission in that time changes nothing
C16_OneCallOutstanding ==
    [][(isLoading /\ isLoading') =>
        /\ question' = question
        /\ callHistory' = callHistory
        /\ Len(history') <= Len(history)
        /\ (HandleSubmit => UNCHANGED vars)]_vars

C16_Witness ==
    /\ isLoading
    /\ Len(files) > 0
    /\ history = Append(callHistory, [role |-> "user", content |-> question])
    /\ Len(callHistory) = 2
    /\ ENABLED HandleSubmit

\* C17: a question that is blank (empty or whitespace only) is rejected before
\* dispatch: the submission makes no remote call, appends no turn and leaves
\* the loading and the error state as they were
C17_BlankQuestionRejected ==
    [][(HandleSubmit /\ IsBlank(input)) =>
        /\ question' = question
        /\ callHistory' = callHistory
        /\ history' = history
        /\ isLoading' = isLoading
        /\ error' = error
        /\ errorTimers' = errorTimers]_vars

C17_Witness ==
    /\ input = <<" ">>
    /\ ~isLoading
    /\ error = Null
    /\ Len(history) = 2
    /\ ENABLED HandleSubmit

\* C18: an accepted submission finishes: isLoading returns to false once the
\* remote call settles, and the step that ends it has either appended one
\* model turn (no error set) or set the error message (no turn appended)
C18_SubmissionFinishes ==
    /\ isLoading ~> ~isLoading
    /\ [][(isLoading /\ ~isLoading') =>
            \/ /\ Len(history') = Len(history) + 1
               /\ SubSeq(history', 1, Len(history)) = history
               /\ history'[Len(history')].role = "model"
               /\ error' = Null
            \/ /\ history' = history
               /\ error' # Null]_vars

C18_Witness ==
    /\ ~isLoading
    /\ Len(history) = 3
    /\ history[2].role = "model"
    /\ history[3].role = "user"
    /\ error = FailedMessage

\* C19: whatever progress events a read has had, when its onload handler
\* finishes the bytes it has credited to the shared counter (the progress
\* deltas, which sum to its last reported value, plus the remainder credited
\* at completion) equal the size of the file; for a batch of one read file
\* the counter itself then equals that size
C19_ReadCreditsItsSize ==
    /\ [][\A i \in Readers :
            (readerState[i] = "reading" /\ readerState'[i] = "loaded") =>
                lastLoaded[i] + (loadedBytes' - loadedBytes) = validFiles[i].size]_vars
    /\ []((Len(validFiles) = 1 /\ readerState[1] = "loaded") =>
            loadedBytes = validFiles[1].size)

C19_Witness ==
    /\ Len(validFiles) = 1
    /\ readerState[1] = "loaded"
    /\ 0 < lastLoaded[1]
    /\ lastLoaded[1] < validFiles[1].size
    /\ loadedBytes = validFiles[1].size

\* the bytes reader i has credited so far: the whole size once skipped as a
\* duplicate or read to completion, the last reported value while in flight
CreditOf(i) ==
    IF readerState[i] \in {"skipped", "loaded"} THEN validFiles[i].size
    ELSE IF readerState[i] \in {"reading", "failed"} THEN lastLoaded[i]
    ELSE 0

RECURSIVE SumCredits(_)
SumCredits(n) == IF n = 0 THEN 0 ELSE SumCredits(n - 1) + CreditOf(n)

\* C20: in every state of a batch the shared counter equals the sum of the
\* bytes credited per file, and lies between 0 and totalBytes
C20_CounterIsSumOfCredits ==
    /\ loadedBytes = SumCredits(Len(validFiles))
    /\ 0 <= loadedBytes
    /\ loadedBytes <= totalBytes

C20_Witness ==
    /\ pc = "await"
    /\ Len(validFiles) = 2
    /\ readerState[1] = "reading"
    /\ readerState[2] = "reading"
    /\ 0 < lastLoaded[1]
    /\ lastLoaded[1] < validFiles[1].size
    /\ 0 < lastLoaded[2]
    /\ loadedBytes = lastLoaded[1] + lastLoaded[2]

\* a read of the batch that has been dispatched, or is about to be, and has
\* not settled
InFlight(i) == readerState[i] \in {"none", "reading"}

\* C21: the merge is a join barrier: the collection grows and the duplicate
\* notice is issued only by the merge step, taken when no read of the batch
\* is in flight; while a read is in flight every document of the collection
\* is one that was there when the batch started
C21_MergeIsJoinBarrier ==
    /\ [][(\/ Len(files') > Len(files)
           \/ (notice' # notice /\ notice'[1] = "skipped")) =>
              /\ pc = "merge"
              /\ \A i \in Readers : ~InFlight(i)]_vars
    /\ []((\E i \in Readers : InFlight(i)) =>
            \A k \in 1..Len(files) :
                \E j \in 1..Len(closureFiles) : closureFiles[j] = files[k])

C21_Witness ==
    /\ pc = "linger"
    /\ Len(validFiles) = 2
    /\ readerState = <<"skipped", "loaded">>
    /\ lastLoaded[2] > 0
    /\ notice = <<"skipped", 1>>
    /\ files = Append(closureFiles, FileDataOf(validFiles[2]))

\* the name contains the text, letter case apart
ContainsIgnoringCase(name, text) ==
    \E off \in 0..(Len(name) - Len(text)) :
        \A j \in 1..Len(text) : ToLowerChar(name[off + j]) = ToLowerChar(text[j])

\* C22: the filtered view lists, in order and each with its own position, the
\* documents whose name contains the search text case-insensitively; typing a
\* search text leaves the collection as it is; removing an entry of the view
\* deletes the document at its position and keeps the others in order
C22_FilteredViewAndRemoval ==
    /\ [](LET view == FilteredFiles(files, searchQuery)
              shown == {k \in 1..Len(files) : ContainsIgnoringCase(files[k].name, searchQuery)}
          IN  /\ Len(view) = Cardinality(shown)
              /\ \A j \in 1..Len(view) :
                    /\ view[j].originalIndex \in shown
                    /\ view[j].name = files[view[j].originalIndex].name
                    /\ view[j].base64 = files[view[j].originalIndex].base64
                    /\ view[j].size = files[view[j].originalIndex].size
              /\ \A j \in 1..(Len(view) - 1) :
                    view[j].originalIndex < view[j + 1].originalIndex)
    /\ [][searchQuery' # searchQuery => files' = files]_vars
    /\ [][\A k \in ShownIndices : RemoveFile(k) =>
            /\ Len(files') = Len(files) - 1
            /\ \A n \in 1..(k - 1) : files'[n] = files[n]
            /\ \A n \in k..Len(files') : files'[n] = files[n + 1]]_vars

C22_Witness ==
    /\ searchQuery = <<"z", ".">>
    /\ files = <<FileDataOf(FA), FileDataOf(FZ), FileDataOf(FB)>>
    /\ ShownIndices = {2}
    /\ ENABLED RemoveFile(2)

\* the file is declared a PDF, or its name ends in ".pdf" in any letter case
AcceptablePdf(type, name) ==
    \/ type = <<"application/pdf">>
    \/ /\ Len(name) >= 4
       /\ ToLowerChar(name[Len(name) - 3]) = "."
       /\ ToLowerChar(name[Len(name) - 2]) = "p"
       /\ ToLowerChar(name[Len(name) - 1]) = "d"
       /\ ToLowerChar(name[Len(name)]) = "f"

\* the input lists that are empty or hold no such file
InputsWithoutPdf ==
    {l \in BatchInputs : \A i \in 1..Len(l) : ~AcceptablePdf(l[i].type, l[i].name)}

\* C23: only PDFs are read or added, and an input list that is empty or holds
\* no PDF starts no batch: the collection, isProcessing and uploadProgress
\* stay as they were
C23_OnlyPdfsTaken ==
    /\ [](/\ \A i \in 1..Len(validFiles) :
                AcceptablePdf(validFiles[i].type, validFiles[i].name)
          /\ \A k \in 1..Len(files) :
                \E f \in FileUniverse :
                    /\ AcceptablePdf(f.type, f.name)
                    /\ files[k] = FileDataOf(f))
    /\ [][\A fs \in InputsWithoutPdf :
            (HandleFileChange(fs) \/ HandleDrop(fs)) =>
                /\ files' = files
                /\ isProcessing' = isProcessing
                /\ uploadProgress' = uploadProgress
                /\ pc' = pc
                /\ validFiles' = validFiles
                /\ readerState' = readerState]_vars

C23_Witness ==
    /\ notice = <<"unsupported">>
    /\ pc = "idle"
    /\ ~isProcessing
    /\ uploadProgress = 0
    /\ files = <<FileDataOf(FZ)>>

\* turns alternate, the user's first
Alternates(turns) ==
    \A k \in 1..Len(turns) : turns[k].role = IF k % 2 = 1 THEN "user" ELSE "model"

\* C24: with no question pending the conversation is empty or alternates
\* from a user turn to a closing model turn; with a question pending it is
\* such an alternation and one more user turn
C24_ConversationAlternates ==
    /\ Alternates(history)
    /\ Len(history) % 2 = (IF isLoading THEN 1 ELSE 0)

\* C25: the merge appends the new documents of the batch to the collection
\* as it is at merge time, so a document removed while the batch was in
\* flight is not in the collection after the merge
C25_MergeOntoCurrentCollection ==
    [][(pc = "merge" /\ pc' = "linger" /\ Len(NewFiles(validFiles, readerState)) > 0) =>
          files' = files \o NewFiles(validFiles, readerState)]_vars

====
